---- MODULE Spec2Model ----
(***************************************************************************)
(* Model of icarus: TxManager.Run (src/main.go) and the wallet helpers     *)
(* DeriveEthereumWalletsFromMnemonic / SendEIP1559ETHTransferInBatch        *)
(* (src/internal/rpc/rpc.go).                                               *)
(*                                                                         *)
(* One run is modelled: the main goroutine of Run, one builder goroutine   *)
(* per derived wallet (main.go 98-115) and one submission goroutine per    *)
(* aggregated transaction (main.go 126-140).  The chain client, the        *)
(* signer and the HD wallet library are the environment: every call to     *)
(* them returns a value drawn from a small set, or an error.               *)
(*                                                                         *)
(* Loop variables are per iteration (Go >= 1.22): each goroutine closure   *)
(* captures the wallet / tx of its own iteration.                          *)
(*                                                                         *)
(* Nonces are far below 2^64 (PendingNonces), so nonce+uint64(i) does not  *)
(* wrap and is modelled on the integers.  A goroutine's locals are dropped *)
(* when they are dead: err after it was logged or counted, everything when *)
(* the goroutine ends.                                                     *)
(***************************************************************************)
EXTENDS Integers, Sequences, FiniteSets, TLC

\* ---------------------------------------------------------------- bounds
MaxWallets == 2
MaxTx == 4

\* -------------------------------------------------------- program constants
GasBuffer == 1000
TransferValue == 10000

\* ------------------------------------------------- environment value sets
WalletCounts == (0 - 1) .. MaxWallets
TxCounts == (0 - 1) .. MaxTx
PendingNonces == {5}
GasEstimates == {21000}
TipCaps == {1, 2}
BaseFees == {7}
ChainIDs == {1337}

WalletIds == 1 .. MaxWallets
TxSlots == 1 .. MaxTx

VARIABLES
    WalletsNumber,  \* TxManager.WalletsNumber
    TxNumber,       \* TxManager.TxNumber
    mnemonicValid,  \* whether TxManager.Mnemonic passes bip39.IsMnemonicValid
    pc,             \* position of the main goroutine in Run
    dialErr,        \* ethclient.DialContext returned an error
    batch,          \* local batch of Run
    chainId,        \* local chainId of Run: [nil |-> BOOLEAN, val |-> Int]
    Wallets,        \* TxManager.Wallets: sequence of derivation indexes + 1
    deriveErr,      \* the error DeriveEthereumWalletsFromMnemonic returned ("" = nil)
    widx,           \* next element of the range loop over wallets
    wg,             \* counter of the current sync.WaitGroup
    txs,            \* the aggregated collection
    Mu,             \* TxManager.Mu: <<>> when free, else its holder
    builder,        \* per wallet: the builder goroutine and its locals
    tidx,           \* next element of the range loop over txs
    sub,            \* per position of txs: the submission goroutine
    Success,        \* TxManager.Success
    Failed,         \* TxManager.Failed
    tally,          \* locals success, failed read at the end of Run
    sleeps,         \* number of time.Sleep pacing waits performed
    spawnLog,       \* transactions in the order their submission was spawned
    queried,        \* a nonce / gas / tip / header query has been issued
    unbuilt,        \* transactions of a batch that were not built (error logged)
    feeUnavailable, \* a gas estimate failed or a header carried no base fee
    sendErrs        \* number of SendTransaction calls that returned an error

vars == <<WalletsNumber, TxNumber, mnemonicValid, pc, dialErr, batch, chainId, Wallets,
          deriveErr, widx, wg, txs, Mu, builder, tidx, sub, Success, Failed,
          tally, sleeps, spawnLog, queried, unbuilt, feeUnavailable, sendErrs>>

config == <<WalletsNumber, TxNumber, mnemonicValid>>
mainLocals == <<dialErr, batch, chainId, Wallets, deriveErr, widx, tidx, tally, sleeps, spawnLog>>
history == <<queried, unbuilt, feeUnavailable, sendErrs>>

\* ------------------------------------------------------------- helpers
Abs(x) == IF x < 0 THEN 0 - x ELSE x

\* Faulty variant: the division rounds up instead of truncating.
GoDivRoundUp(a, b) == (a + b - 1) \div b

\* Go's integer division truncates toward zero.
GoDiv(a, b) ==
    IF (a < 0) = (b < 0) THEN Abs(a) \div Abs(b) ELSE 0 - (Abs(a) \div Abs(b))

Free == <<>>
BuilderHolder(w) == <<"builder", w>>
SubmitHolder(i) == <<"submit", i>>

NilChainId == [nil |-> TRUE, val |-> 0]

InitBuilder ==
    [pc |-> "none", balanceErr |-> FALSE, fail |-> "", nonce |-> 0, baseFee |-> 0, txs |-> <<>>,
     signErrs |-> {}]

NoTx ==
    [from |-> 0, nonce |-> 0, tipCap |-> 0, feeCap |-> 0, gas |-> 0, chainId |-> 0,
     value |-> 0]

InitSub == [pc |-> "none", tx |-> NoTx, sent |-> 0, err |-> FALSE]

Init ==
    /\ WalletsNumber \in WalletCounts
    /\ TxNumber \in TxCounts
    /\ mnemonicValid \in BOOLEAN
    /\ pc = "start"
    /\ dialErr = FALSE
    /\ batch = 0
    /\ chainId = NilChainId
    /\ Wallets = <<>>
    /\ deriveErr = ""
    /\ widx = 1
    /\ wg = 0
    /\ txs = <<>>
    /\ Mu = Free
    /\ builder = [w \in WalletIds |-> InitBuilder]
    /\ tidx = 1
    /\ sub = [i \in TxSlots |-> InitSub]
    /\ Success = 0
    /\ Failed = 0
    /\ tally = [success |-> 0, failed |-> 0]
    /\ sleeps = 0
    /\ spawnLog = <<>>
    /\ queried = FALSE
    /\ unbuilt = 0
    /\ feeUnavailable = FALSE
    /\ sendErrs = 0

\* ------------------------------------------------- Run: the main goroutine

\* batch := t.TxNumber / t.WalletsNumber; a zero divisor is a run-time panic.
RunStart ==
    /\ pc = "start"
    /\ IF WalletsNumber = 0
       THEN /\ pc' = "Aborted"
            /\ batch' = batch
       ELSE /\ pc' = "dial"
            /\ batch' = GoDiv(TxNumber, WalletsNumber)
    /\ UNCHANGED <<config, dialErr, chainId, Wallets, deriveErr, widx, wg, txs, Mu,
                   builder, tidx, sub, Success, Failed, tally, sleeps, spawnLog, history>>

\* Faulty variant: the dial error is ignored and Run carries on.
AfterDialErrorIgnored == "chainid"

\* Where Run goes when ethclient.DialContext returns an error: panic.
AfterDialError == "Aborted"

DialContext ==
    /\ pc = "dial"
    /\ \E ok \in BOOLEAN :
          /\ dialErr' = ~ok
          /\ pc' = IF ok THEN "chainid" ELSE AfterDialError
    /\ UNCHANGED <<config, batch, chainId, Wallets, deriveErr, widx, tidx, tally,
                   sleeps, spawnLog, wg, txs, Mu, builder, sub, Success, Failed, history>>

\* Faulty variant: a chain-ID error is fatal.
AfterChainIdErrorFatal == "Aborted"

\* Where Run goes when client.NetworkID returns an error: it only prints.
AfterChainIdError == "derive"

NetworkID ==
    /\ pc = "chainid"
    /\ \/ \E c \in ChainIDs :
            /\ chainId' = [nil |-> FALSE, val |-> c]
            /\ pc' = "derive"
       \/ /\ chainId' = NilChainId
          /\ pc' = AfterChainIdError
    /\ UNCHANGED <<config, dialErr, batch, Wallets, deriveErr, widx, tidx, tally, sleeps,
                   spawnLog, wg, txs, Mu, builder, sub, Success, Failed, history>>

\* Faulty variant: on an error at index failAt the wallets derived so far are
\* returned.
DerivedWalletsPartial(count, failAt) ==
    [k \in 1 .. (IF failAt < count THEN failAt ELSE count) |-> k]

\* The wallets returned when the loop over indexes 0..count-1 meets no error
\* before index failAt (failAt = count: no index fails).
DerivedWallets(count, failAt) ==
    IF failAt < count THEN <<>> ELSE [k \in 1 .. count |-> k]

\* DeriveEthereumWalletsFromMnemonic: the pair (wallets, err).
DeriveEthereumWalletsFromMnemonic(valid, count, hdOk, failAt) ==
    IF count <= 0 THEN [wallets |-> <<>>, err |-> "count must be > 0"]
    ELSE IF ~valid THEN [wallets |-> <<>>, err |-> "invalid mnemonic"]
    ELSE IF ~hdOk THEN [wallets |-> <<>>, err |-> "failed to create wallet"]
    ELSE [wallets |-> DerivedWallets(count, failAt),
          err |-> IF failAt < count THEN "failed to derive account" ELSE ""]

\* wallets, _ := DeriveEthereumWalletsFromMnemonic(...): the error is dropped.
Derive ==
    /\ pc = "derive"
    /\ \E hdOk \in BOOLEAN, failAt \in 0 .. MaxWallets :
          LET r == DeriveEthereumWalletsFromMnemonic(mnemonicValid, WalletsNumber,
                                                     hdOk, failAt)
          IN /\ Wallets' = r.wallets
             /\ deriveErr' = r.err
    /\ pc' = "build"
    /\ widx' = 1
    /\ UNCHANGED <<config, dialErr, batch, chainId, tidx, tally, sleeps, spawnLog, wg, txs,
                   Mu, builder, sub, Success, Failed, history>>

\* One iteration of the loop over wallets: wg.Add(1); go func() {...}().
SpawnBuilder ==
    /\ pc = "build"
    /\ widx <= Len(Wallets)
    /\ wg' = wg + 1
    /\ builder' = [builder EXCEPT ![Wallets[widx]].pc = "balance"]
    /\ widx' = widx + 1
    /\ UNCHANGED <<config, pc, dialErr, batch, chainId, Wallets, deriveErr, tidx, tally,
                   sleeps, spawnLog, txs, Mu, sub, Success, Failed, history>>

\* Faulty variant: the barrier after the builder loop is missing.
BuildersJoinedNoWait == TRUE

\* wg.Wait() after the builder loop returns when the counter is zero.
BuildersJoined == wg = 0

\* wg.Wait(); wg = sync.WaitGroup{}; wg.Add(len(txs)).
WaitBuilders ==
    /\ pc = "build"
    /\ widx > Len(Wallets)
    /\ BuildersJoined
    /\ wg' = Len(txs)
    /\ pc' = "broadcast"
    /\ tidx' = 1
    /\ UNCHANGED <<config, dialErr, batch, chainId, Wallets, deriveErr, widx, tally, sleeps,
                   spawnLog, txs, Mu, builder, sub, Success, Failed, history>>

\* Faulty variant: every closure reads one shared loop variable, which holds the
\* last transaction by the time the goroutine runs.
CapturedTxShared(all, i) == all[Len(all)]

\* The transaction the goroutine spawned in iteration i of the loop submits.
CapturedTx(all, i) == all[i]

\* Faulty variant: the loop starts a submission only when the earlier ones
\* have completed.
SpawnSubmitAfterCompletion ==
    /\ pc = "broadcast"
    /\ tidx <= Len(txs)
    /\ \A i \in 1 .. tidx - 1 : sub[i].pc = "done"
    /\ sub' = [sub EXCEPT ![tidx].pc = "send", ![tidx].tx = CapturedTx(txs, tidx)]
    /\ spawnLog' = Append(spawnLog, CapturedTx(txs, tidx))
    /\ pc' = "sleep"
    /\ UNCHANGED <<config, dialErr, batch, chainId, Wallets, deriveErr, widx, tidx, tally,
                   sleeps, wg, txs, Mu, builder, Success, Failed, history>>

\* One iteration of the loop over txs: go func() {...}().
SpawnSubmit ==
    /\ pc = "broadcast"
    /\ tidx <= Len(txs)
    /\ sub' = [sub EXCEPT ![tidx].pc = "send", ![tidx].tx = CapturedTx(txs, tidx)]
    /\ spawnLog' = Append(spawnLog, CapturedTx(txs, tidx))
    /\ pc' = "sleep"
    /\ UNCHANGED <<config, dialErr, batch, chainId, Wallets, deriveErr, widx, tidx, tally,
                   sleeps, wg, txs, Mu, builder, Success, Failed, history>>

\* time.Sleep(WaitMilis) at the end of the iteration.
Sleep ==
    /\ pc = "sleep"
    /\ sleeps' = sleeps + 1
    /\ tidx' = tidx + 1
    /\ pc' = "broadcast"
    /\ UNCHANGED <<config, dialErr, batch, chainId, Wallets, deriveErr, widx, tally, spawnLog,
                   wg, txs, Mu, builder, sub, Success, Failed, history>>

\* Faulty variant: the join after the broadcast loop is missing.
SubmissionsJoinedNoWait == TRUE

\* wg.Wait() after the broadcast loop returns when the counter is zero.
SubmissionsJoined == wg = 0

WaitSubmissions ==
    /\ pc = "broadcast"
    /\ tidx > Len(txs)
    /\ SubmissionsJoined
    /\ pc' = "tally"
    /\ UNCHANGED <<config, mainLocals, wg, txs, Mu, builder, sub, Success, Failed, history>>

\* success := t.Success; failed := t.Failed; the two summary lines.
ReadTally ==
    /\ pc = "tally"
    /\ tally' = [success |-> Success, failed |-> Failed]
    /\ pc' = "Complete"
    /\ UNCHANGED <<config, dialErr, batch, chainId, Wallets, deriveErr, widx, tidx, sleeps,
                   spawnLog, wg, txs, Mu, builder, sub, Success, Failed, history>>

\* ------------------------------------- builder goroutines (main.go 98-115)

\* Faulty variant: a failed balance probe makes the builder skip the batch call.
AfterBalanceGated(ok) == IF ok THEN "batch" ELSE "lock"

\* Where the builder goes after the balance probe: an error is only logged.
AfterBalance(ok) == "batch"

\* balance, err := wallet.GetBalanceEther(rpcURL)
GetBalanceEther(w) ==
    /\ builder[w].pc = "balance"
    /\ \E ok \in BOOLEAN :
          builder' = [builder EXCEPT ![w].pc = AfterBalance(ok), ![w].balanceErr = ~ok]
    /\ UNCHANGED <<config, pc, mainLocals, wg, txs, Mu, sub, Success, Failed, history>>

\* The number of iterations of `for i := 0; i < batch; i++`.
BatchSize(n) == IF 0 < n THEN n ELSE 0

\* Faulty variant: the tip is left out of the fee cap.
MaxFeeCapNoTip(baseFee, tipCap) == baseFee * 2

\* maxFeeCap := 2*baseFee + tipCap
MaxFeeCap(baseFee, tipCap) == baseFee * 2 + tipCap

\* Faulty variant: the loop index is not added to the pending nonce.
AssignedNonceNoIndex(nonce, i) == nonce

\* The nonce given to the transaction of loop index i.
AssignedNonce(nonce, i) == nonce + i

\* Faulty variant: the fee cap drifts with the nonce instead of being the shared value.
SendEIP1559ETHTransferFeeDrift(w, cid, nonce, tipCap, maxFeeCap, gasLimit, value) ==
    [from |-> w, nonce |-> nonce, tipCap |-> tipCap, feeCap |-> maxFeeCap + nonce,
     gas |-> gasLimit, chainId |-> cid.val, value |-> value]

\* SendEIP1559ETHTransfer: the transaction that is signed.
SendEIP1559ETHTransfer(w, cid, nonce, tipCap, maxFeeCap, gasLimit, value) ==
    [from |-> w, nonce |-> nonce, tipCap |-> tipCap, feeCap |-> maxFeeCap,
     gas |-> gasLimit, chainId |-> cid.val, value |-> value]

\* Faulty variant: a signing error throws away what the loop has built so far.
AfterSignDropBatch(batchTxs, tx, ok) == IF ok THEN Append(batchTxs, tx) ELSE <<>>

\* Faulty variant: a signed transaction is put in front of the batch.
AfterSignPrepend(batchTxs, tx, ok) == IF ok THEN <<tx>> \o batchTxs ELSE batchTxs

\* The local batch after one loop iteration: a signing error skips the tx.
AfterSign(batchTxs, tx, ok) == IF ok THEN Append(batchTxs, tx) ELSE batchTxs

\* The signing loop from index i on; signOk holds the indexes whose signing
\* succeeds.
RECURSIVE SignLoop(_, _, _, _, _, _, _, _, _)
SignLoop(i, n, acc, w, cid, nonce, tipCap, gasLimit, signOk) ==
    IF i < n
    THEN SignLoop(i + 1, n,
                  AfterSign(acc,
                            SendEIP1559ETHTransfer(w, cid, AssignedNonce(nonce, i),
                                                   tipCap.tip, tipCap.cap, gasLimit,
                                                   TransferValue),
                            i \in signOk),
                  w, cid, nonce, tipCap, gasLimit, signOk)
    ELSE acc

\* Faulty variant: on a failed call the builder goroutine returns at once,
\* without wg.Done().
ReturnEarlyNoDone(b, why) == [InitBuilder EXCEPT !.pc = "done"]

\* Faulty variant: the `return nil, err` is missing and a transaction with zero fee
\* parameters is built all the same.
ReturnEarlyFallThrough(b, why) ==
    [b EXCEPT !.pc = "lock", !.balanceErr = FALSE, !.fail = why, !.txs = <<NoTx>>]

\* The builder after SendEIP1559ETHTransferInBatch returned (nil, err) before
\* its loop, `why` naming the error that was logged: "nonce", "gas", "tip",
\* "header", or "basefee" (BaseFee == nil, where the err returned is nil).
\* The builder goes on to lock the mutex and append nil.
ReturnEarly(b, why) == [b EXCEPT !.pc = "lock", !.balanceErr = FALSE, !.fail = why]

\* The builder after SendEIP1559ETHTransferInBatch returned (txs, nil); the
\* err of the balance probe is overwritten by the call's.
ReturnBatch(b, w, n, cid, nonce, gas, tip, baseFee, signOk) ==
    [b EXCEPT !.pc = "lock",
              !.balanceErr = FALSE,
              !.nonce = nonce,
              !.baseFee = baseFee,
              !.signErrs = (0 .. n - 1) \ signOk,
              !.txs = SignLoop(0, n, <<>>, w, cid, nonce,
                               [tip |-> tip, cap |-> MaxFeeCap(baseFee, tip)],
                               gas + GasBuffer, signOk)]

\* tx, err := wallet.SendEIP1559ETHTransferInBatch(chainId, batch): the four
\* chain queries in their order, each of which may fail and end the call, the
\* BaseFee == nil check (which returns a nil error), and the signing loop.
\* The calls touch nothing another goroutine reads, so the call is one step.
SendEIP1559ETHTransferInBatch(w) ==
    /\ builder[w].pc = "batch"
    /\ queried' = TRUE
    /\ \/ /\ builder' = [builder EXCEPT ![w] = ReturnEarly(@, "nonce")]
          /\ unbuilt' = unbuilt + BatchSize(batch)
          /\ feeUnavailable' = feeUnavailable
       \/ /\ builder' = [builder EXCEPT ![w] = ReturnEarly(@, "gas")]
          /\ unbuilt' = unbuilt + BatchSize(batch)
          /\ feeUnavailable' = TRUE
       \/ /\ builder' = [builder EXCEPT ![w] = ReturnEarly(@, "tip")]
          /\ unbuilt' = unbuilt + BatchSize(batch)
          /\ feeUnavailable' = feeUnavailable
       \/ /\ builder' = [builder EXCEPT ![w] = ReturnEarly(@, "header")]
          /\ unbuilt' = unbuilt + BatchSize(batch)
          /\ feeUnavailable' = feeUnavailable
       \/ /\ builder' = [builder EXCEPT ![w] = ReturnEarly(@, "basefee")]
          /\ unbuilt' = unbuilt + BatchSize(batch)
          /\ feeUnavailable' = TRUE
       \/ \E nonce \in PendingNonces, gas \in GasEstimates, tip \in TipCaps,
             baseFee \in BaseFees, signOk \in SUBSET (0 .. BatchSize(batch) - 1) :
             /\ builder' = [builder EXCEPT
                              ![w] = ReturnBatch(@, w, BatchSize(batch), chainId,
                                                 nonce, gas, tip, baseFee, signOk)]
             /\ unbuilt' = unbuilt + (BatchSize(batch) - Cardinality(signOk))
             /\ feeUnavailable' = feeUnavailable
    /\ UNCHANGED <<config, pc, mainLocals, wg, txs, Mu, sub, Success, Failed,
                   sendErrs>>

\* Faulty variant: the builder enters its critical section without waiting for
\* the mutex to be free.
BuilderLockNoWait(w) ==
    /\ builder[w].pc = "lock"
    /\ Mu' = BuilderHolder(w)
    /\ builder' = [builder EXCEPT ![w].pc = "append"]
    /\ UNCHANGED <<config, pc, mainLocals, wg, txs, sub, Success, Failed, history>>

\* t.Mu.Lock() in the builder.
BuilderLock(w) ==
    /\ builder[w].pc = "lock"
    /\ Mu = Free
    /\ Mu' = BuilderHolder(w)
    /\ builder' = [builder EXCEPT ![w].pc = "append"]
    /\ UNCHANGED <<config, pc, mainLocals, wg, txs, sub, Success, Failed, history>>

\* txs = append(txs, tx...)
Merge(all, batchTxs) == all \o batchTxs

BuilderAppend(w) ==
    /\ builder[w].pc = "append"
    /\ txs' = Merge(txs, builder[w].txs)
    /\ builder' = [builder EXCEPT ![w].pc = "unlock"]
    /\ UNCHANGED <<config, pc, mainLocals, wg, Mu, sub, Success, Failed, history>>

\* The deferred calls, run back to back when the closure returns:
\* t.Mu.Unlock(), then wg.Done().  The goroutine ends and its locals with it.
BuilderExit(w) ==
    /\ builder[w].pc = "unlock"
    /\ Mu = BuilderHolder(w)
    /\ Mu' = Free
    /\ wg' = wg - 1
    /\ builder' = [builder EXCEPT ![w] = [InitBuilder EXCEPT !.pc = "done"]]
    /\ UNCHANGED <<config, pc, mainLocals, txs, sub, Success, Failed, history>>

\* --------------------------------- submission goroutines (main.go 126-140)

\* err := client.SendTransaction(context.Background(), tx)
SendTransaction(i) ==
    /\ sub[i].pc = "send"
    /\ \E ok \in BOOLEAN :
          /\ sub' = [sub EXCEPT ![i].pc = "lock", ![i].err = ~ok, ![i].sent = @ + 1]
          /\ sendErrs' = IF ok THEN sendErrs ELSE sendErrs + 1
    /\ UNCHANGED <<config, pc, mainLocals, wg, txs, Mu, builder, Success, Failed,
                   queried, unbuilt, feeUnavailable>>

\* t.Mu.Lock() in the submission goroutine.
SubmitLock(i) ==
    /\ sub[i].pc = "lock"
    /\ Mu = Free
    /\ Mu' = SubmitHolder(i)
    /\ sub' = [sub EXCEPT ![i].pc = "count"]
    /\ UNCHANGED <<config, pc, mainLocals, wg, txs, builder, Success, Failed, history>>

\* Faulty variant: every outcome is counted as a success.
CountAlwaysSuccess(s, f, err) == [Success |-> s + 1, Failed |-> f]

\* The counters after one outcome: t.Failed++ on an error, else t.Success++.
Count(s, f, err) ==
    IF err THEN [Success |-> s, Failed |-> f + 1] ELSE [Success |-> s + 1, Failed |-> f]

\* if err != nil { t.Failed++ } else { t.Success++ }; err is not read again.
SubmitCount(i) ==
    /\ sub[i].pc = "count"
    /\ LET c == Count(Success, Failed, sub[i].err)
       IN /\ Success' = c.Success
          /\ Failed' = c.Failed
    /\ sub' = [sub EXCEPT ![i].pc = "unlock", ![i].err = FALSE]
    /\ UNCHANGED <<config, pc, mainLocals, wg, txs, Mu, builder, history>>

\* Faulty variant: the submission goroutine returns without t.Mu.Unlock().
SubmitExitNoUnlock(i) ==
    /\ sub[i].pc = "unlock"
    /\ Mu = SubmitHolder(i)
    /\ wg' = wg - 1
    /\ sub' = [sub EXCEPT ![i].pc = "done"]
    /\ UNCHANGED <<config, pc, mainLocals, txs, Mu, builder, Success, Failed, history>>

\* t.Mu.Unlock(), then the deferred wg.Done() as the closure returns.
SubmitExit(i) ==
    /\ sub[i].pc = "unlock"
    /\ Mu = SubmitHolder(i)
    /\ Mu' = Free
    /\ wg' = wg - 1
    /\ sub' = [sub EXCEPT ![i].pc = "done"]
    /\ UNCHANGED <<config, pc, mainLocals, txs, builder, Success, Failed, history>>

\* ------------------------------------------------------------ specification
Next ==
    \/ RunStart
    \/ DialContext
    \/ NetworkID
    \/ Derive
    \/ SpawnBuilder
    \/ WaitBuilders
    \/ SpawnSubmit
    \/ Sleep
    \/ WaitSubmissions
    \/ ReadTally
    \/ \E w \in WalletIds : GetBalanceEther(w)
    \/ \E w \in WalletIds : SendEIP1559ETHTransferInBatch(w)
    \/ \E w \in WalletIds : BuilderLock(w)
    \/ \E w \in WalletIds : BuilderAppend(w)
    \/ \E w \in WalletIds : BuilderExit(w)
    \/ \E i \in TxSlots : SendTransaction(i)
    \/ \E i \in TxSlots : SubmitLock(i)
    \/ \E i \in TxSlots : SubmitCount(i)
    \/ \E i \in TxSlots : SubmitExit(i)

Spec == Init /\ [][Next]_vars

\* Every call into the chain client, the signer and the HD wallet library
\* returns, and the Go scheduler runs every runnable goroutine: as long as
\* some goroutine of the run can take a step, a step is taken.
Fairness == WF_vars(Next)

FairSpec == Spec /\ Fairness

\* --------------------------------------------------------- run phases
Aborted == pc = "Aborted"
Complete == pc = "Complete"
Broadcasting == pc \in {"broadcast", "sleep", "tally"}

\* The builder of wallet w has returned from SendEIP1559ETHTransferInBatch
\* and has not ended yet.
Returned(w) == builder[w].pc \in {"lock", "append", "unlock"}

\* Every wallet's builder goroutine has ended.
AllBuildersFinished ==
    /\ \A w \in WalletIds : builder[w].pc \in {"none", "done"}
    /\ \A k \in 1 .. Len(Wallets) : builder[Wallets[k]].pc = "done"

Nonces(seq) == {seq[k].nonce : k \in 1 .. Len(seq)}

\* Within seq, the transactions of one wallet are in ascending nonce order.
AscendingPerWallet(seq) ==
    \A i, j \in 1 .. Len(seq) :
        (i < j /\ seq[i].from = seq[j].from) => seq[i].nonce < seq[j].nonce

Fees(tx) == <<tx.tipCap, tx.feeCap, tx.gas>>

\* ------------------------------------------------------------------ C1
\* C1: once the join after the broadcast loop has returned, Success + Failed
\* is the number of aggregated transactions: every submission goroutine has
\* ended, each failed SendTransaction was counted once in Failed and every
\* other one once in Success, and the tally Run reports is that pair.
C1_TallyExact ==
    pc \in {"tally", "Complete"} =>
        /\ \A i \in 1 .. Len(txs) : sub[i].pc = "done"
        /\ Success + Failed = Len(txs)
        /\ Failed = sendErrs
        /\ Success = Len(txs) - sendErrs
        /\ Complete => tally = [success |-> Success, failed |-> Failed]

C1_Witness ==
    /\ Complete
    /\ Len(txs) = 4
    /\ Len(Wallets) = 2
    /\ tally.success = 3
    /\ tally.failed = 1

\* ------------------------------------------------------------------ C2
\* C2 as claimed: whatever the signing calls return, a batch built with batch
\* size B from pending nonce p carries exactly the nonces p .. p+B-1, once each.
C2_NoncesContiguous ==
    \A w \in WalletIds :
        (Returned(w) /\ builder[w].fail = "") =>
            LET b == builder[w]
                B == BatchSize(batch)
            IN /\ Len(b.txs) = B
               /\ Nonces(b.txs) = b.nonce .. (b.nonce + B - 1)

\* C2 as amended: the batch carries the nonce p+i exactly for the loop indexes
\* i whose signing succeeded, once each and in ascending order, all within
\* p .. p+B-1; when every signing succeeds these are exactly p .. p+B-1.
C2_NoncesOfSignedIndexes ==
    \A w \in WalletIds :
        (Returned(w) /\ builder[w].fail = "") =>
            LET b == builder[w]
                B == BatchSize(batch)
                kept == (0 .. B - 1) \ b.signErrs
            IN /\ Len(b.txs) = Cardinality(kept)
               /\ Nonces(b.txs) = {b.nonce + i : i \in kept}
               /\ \A j, k \in 1 .. Len(b.txs) :
                      j < k => b.txs[j].nonce < b.txs[k].nonce
               /\ Nonces(b.txs) \subseteq b.nonce .. (b.nonce + B - 1)
               /\ b.signErrs = {} =>
                      /\ Len(b.txs) = B
                      /\ Nonces(b.txs) = b.nonce .. (b.nonce + B - 1)

\* A batch of size 3 whose middle signing failed: nonces p and p+2.
C2_Witness ==
    \E w \in WalletIds :
        /\ Returned(w)
        /\ builder[w].fail = ""
        /\ batch = 3
        /\ builder[w].signErrs = {1}
        /\ Nonces(builder[w].txs) = {builder[w].nonce, builder[w].nonce + 2}

\* ------------------------------------------------------------------ C3
\* C3: while a submission goroutine exists (spawned, sending or ended), or the
\* main goroutine is in the broadcast loop, every builder goroutine has ended
\* and every transaction a builder built is in the aggregated collection.
C3_Barrier ==
    (Broadcasting \/ Complete \/ \E i \in TxSlots : sub[i].pc # "none") =>
        /\ AllBuildersFinished
        /\ Len(txs) + unbuilt = Len(Wallets) * BatchSize(batch)

C3_Witness ==
    /\ Len(Wallets) = 2
    /\ Len(txs) = 4
    /\ sub[1].pc = "send"
    /\ sub[1].sent = 0

\* ------------------------------------------------------------------ C4
\* C4: in the aggregated collection the transactions of one wallet are in
\* ascending nonce order, and the submissions spawned so far are, in spawn
\* order, the first transactions of the aggregated collection, so that per
\* wallet a lower nonce is always initiated before a higher one.
C4_PerWalletOrder ==
    /\ AscendingPerWallet(txs)
    /\ Len(spawnLog) <= Len(txs)
    /\ spawnLog = SubSeq(txs, 1, Len(spawnLog))
    /\ AscendingPerWallet(spawnLog)
    /\ \A i \in 1 .. Len(txs) : sub[i].pc # "none" => sub[i].tx = txs[i]

\* Two wallets, two transactions each, the second wallet merged first.
C4_Witness ==
    /\ Len(spawnLog) = 4
    /\ spawnLog[1].from = 2
    /\ spawnLog[2].from = 2
    /\ spawnLog[3].from = 1
    /\ spawnLog[1].nonce < spawnLog[2].nonce

\* ------------------------------------------------------------------ C5
\* C5: when every SendTransaction call of the run failed, the run that reaches
\* Complete reports Success = 0 and Failed = the number of aggregated
\* transactions; and a run in which a submission failed is never Aborted and,
\* until it is Complete, can always take a step.
C5_AllSubmissionsFail ==
    /\ (Complete /\ sendErrs = Len(txs)) =>
           /\ Success = 0
           /\ Failed = Len(txs)
           /\ tally = [success |-> 0, failed |-> Len(txs)]
    /\ sendErrs > 0 => (~Aborted /\ (Complete \/ ENABLED Next))

C5_Witness ==
    /\ Complete
    /\ Len(txs) = 4
    /\ sendErrs = 4
    /\ tally.failed = 4

\* ------------------------------------------------------------------ C6
\* C6: once the initial dial has failed the run is Aborted, and in that state
\* and every later one no wallet was derived, no builder or submission
\* goroutine exists, no chain query was issued, the aggregated collection is
\* empty and Success and Failed are zero.
C6_DialFailureAborts ==
    dialErr =>
        /\ Aborted
        /\ Wallets = <<>> /\ deriveErr = ""
        /\ \A w \in WalletIds : builder[w].pc = "none"
        /\ \A i \in TxSlots : sub[i].pc = "none"
        /\ ~queried
        /\ txs = <<>> /\ spawnLog = <<>>
        /\ Success = 0 /\ Failed = 0

C6_Witness ==
    /\ dialErr
    /\ Aborted
    /\ WalletsNumber = 2
    /\ TxNumber = 4
    /\ mnemonicValid

C8_ConfigErrorAborts ==
    (~mnemonicValid \/ WalletsNumber <= 0 \/ TxNumber <= 0) =>
        /\ ~queried
        /\ \A w \in WalletIds : builder[w].pc = "none"
        /\ txs = <<>>
        /\ ~Complete

ChainIdFailed ==
    /\ chainId.nil
    /\ ~dialErr
    /\ WalletsNumber # 0
    /\ pc \notin {"start", "dial", "chainid"}

\* C10: after a failed chain-ID fetch the run is never Aborted and can always
\* take a step until it is Complete; wallets are derived as the seed phrase
\* and count decide, and in Broadcasting and Complete every transaction that
\* was built is in the aggregated collection.
C10_ChainIdFailureContinues ==
    ChainIdFailed =>
        /\ ~Aborted
        /\ Complete \/ ENABLED Next
        /\ (pc # "derive" /\ deriveErr = "" /\ WalletsNumber > 0) =>
               Len(Wallets) = WalletsNumber
        /\ (Broadcasting \/ Complete) =>
               Len(txs) + unbuilt = Len(Wallets) * BatchSize(batch)

C10_Witness ==
    /\ ChainIdFailed
    /\ Complete
    /\ Len(Wallets) = 2
    /\ Len(txs) = 4
    /\ tally.success = 4

\* ----------------------------------------------------------------- C11
\* The transactions built so far by the builders whose batch is not yet in the
\* aggregated collection.
RECURSIVE BuiltNotMerged(_)
BuiltNotMerged(S) ==
    IF S = {} THEN 0
    ELSE LET w == CHOOSE x \in S : TRUE
         IN (IF builder[w].pc \in {"lock", "append"} THEN Len(builder[w].txs) ELSE 0)
            + BuiltNotMerged(S \ {w})

\* All transactions built so far in the run.
Built == Len(txs) + BuiltNotMerged(WalletIds)

C12_FeeCapCoversBaseFee ==
    /\ \A w \in WalletIds :
           (Returned(w) /\ builder[w].fail = "") =>
               /\ builder[w].baseFee \in BaseFees
               /\ \A k \in 1 .. Len(builder[w].txs) :
                      LET tx == builder[w].txs[k]
                      IN /\ tx.tipCap \in TipCaps
                         /\ tx.feeCap >= 2 * builder[w].baseFee + tx.tipCap
    /\ \A k \in 1 .. Len(txs) :
           \E baseFee \in BaseFees : txs[k].feeCap >= 2 * baseFee + txs[k].tipCap

\* A batch of two built with the larger tip, then aggregated.
C12_Witness ==
    \E w \in WalletIds :
        /\ builder[w].pc = "unlock"
        /\ builder[w].fail = ""
        /\ Len(builder[w].txs) = 2
        /\ builder[w].txs[2].tipCap = 2
        /\ builder[w].txs[2].feeCap = 2 * builder[w].baseFee + 2
        /\ Len(txs) >= 2
        /\ txs[Len(txs)] = builder[w].txs[2]

\* ----------------------------------------------------------------- C13
\* The submission goroutines spawned so far.
Spawned == {i \in TxSlots : sub[i].pc # "none"}

\* C13: the aggregated transactions are pairwise distinct; the submission
\* goroutines spawned are those of the first positions of the aggregated
\* collection, one per position, each holding the transaction of its own
\* position; a goroutine calls SendTransaction at most once, whether the
\* call fails or not, and has called it exactly once when it is past the
\* call; and once the join has returned every aggregated transaction was
\* submitted exactly once.
C13_SubmittedOnce ==
    /\ \A i, j \in 1 .. Len(txs) : i # j => txs[i] # txs[j]
    /\ Spawned = 1 .. Len(spawnLog)
    /\ Len(spawnLog) <= Len(txs)
    /\ \A i \in Spawned : sub[i].tx = txs[i] /\ spawnLog[i] = txs[i]
    /\ \A i \in TxSlots :
           /\ sub[i].sent <= 1
           /\ sub[i].sent = 1 <=> sub[i].pc \in {"lock", "count", "unlock", "done"}
    /\ sendErrs <= Cardinality({i \in TxSlots : sub[i].sent = 1})
    /\ pc \in {"tally", "Complete"} =>
           /\ Spawned = 1 .. Len(txs)
           /\ \A i \in 1 .. Len(txs) : sub[i].sent = 1

\* Four transactions, two of them failed, each submitted once.
C13_Witness ==
    /\ Complete
    /\ Len(txs) = 4
    /\ sendErrs = 2
    /\ \A i \in 1 .. 4 : sub[i].sent = 1 /\ sub[i].tx = txs[i]

\* ----------------------------------------------------------------- C14
\* The submissions that were started and have not yet ended.
InFlight == {i \in TxSlots : sub[i].pc \notin {"none", "done"}}

\* C14: the number of pacing waits performed is the number of submissions
\* started, less one while the loop is between a start and the wait that
\* follows it, so the Nth start is preceded by exactly N-1 waits; and the
\* loop's next start, and the wait after a start, are never held back,
\* whatever submissions are in flight.
C14_PacedOnInitiation ==
    /\ (Broadcasting \/ Complete) =>
           /\ sleeps = Len(spawnLog) - (IF pc = "sleep" THEN 1 ELSE 0)
           /\ tidx = sleeps + 1
    /\ ~(Broadcasting \/ Complete) => (sleeps = 0 /\ spawnLog = <<>>)
    /\ (pc = "broadcast" /\ tidx <= Len(txs)) => ENABLED SpawnSubmit
    /\ pc = "sleep" => ENABLED Sleep

\* The third submission has just been started after two waits, while the
\* first is still in flight and the second has already completed.
C14_Witness ==
    /\ pc = "sleep"
    /\ Len(spawnLog) = 3
    /\ sleeps = 2
    /\ InFlight = {1, 3}
    /\ sub[1].pc = "send"
    /\ sub[2].pc = "done"

\* ----------------------------------------------------------------- C15
\* The builder of wallet w returned a batch in which a signing failed.
SignFailed(w) == Returned(w) /\ builder[w].fail = "" /\ builder[w].signErrs # {}

\* C15: a batch returned by a call in which signings failed holds one
\* transaction of that wallet for every loop index whose signing did not
\* fail and none for an index whose signing failed; once appended, that
\* batch is the tail of the aggregated collection, after what the other
\* wallets had merged; the run is not Aborted and can take a step, and in
\* Broadcasting and Complete every transaction that was built is aggregated.
C15_SignFailureSkipsOne ==
    /\ \A w \in WalletIds :
           (Returned(w) /\ builder[w].fail = "") =>
               LET b == builder[w]
                   B == BatchSize(batch)
               IN /\ b.signErrs \subseteq 0 .. B - 1
                  /\ Len(b.txs) = B - Cardinality(b.signErrs)
                  /\ \A i \in 0 .. B - 1 :
                         i \notin b.signErrs <=>
                             \E k \in 1 .. Len(b.txs) :
                                 /\ b.txs[k].from = w
                                 /\ b.txs[k].nonce = AssignedNonce(b.nonce, i)
                  /\ b.pc = "unlock" =>
                         /\ Len(txs) >= Len(b.txs)
                         /\ SubSeq(txs, Len(txs) - Len(b.txs) + 1, Len(txs)) = b.txs
                         /\ \A k \in 1 .. Len(txs) - Len(b.txs) : txs[k].from # w
    /\ (\E w \in WalletIds : SignFailed(w)) => (~Aborted /\ ENABLED Next)
    /\ (Broadcasting \/ Complete) =>
           /\ Len(txs) + unbuilt = Len(Wallets) * BatchSize(batch)
           /\ \A w \in WalletIds : builder[w].signErrs = {}

\* Two wallets with a batch of two: the second wallet merged both of its
\* transactions; the first signing of the first wallet failed and its second
\* transaction is aggregated after them.
C15_Witness ==
    /\ Len(Wallets) = 2
    /\ batch = 2
    /\ SignFailed(1)
    /\ builder[1].pc = "unlock"
    /\ builder[1].signErrs = {0}
    /\ builder[2].pc = "done"
    /\ Len(txs) = 3
    /\ txs[1].from = 2
    /\ txs[2].from = 2
    /\ txs[3].from = 1
    /\ txs[3].nonce = builder[1].nonce + 1

\* ----------------------------------------------------------------- C16
\* The builder of wallet w is about to call SendEIP1559ETHTransferInBatch
\* after its balance probe failed.
ProbeFailed(w) == builder[w].pc = "batch" /\ builder[w].balanceErr

\* The builder record b with the balance probe's outcome set to failed / ok.
WithProbe(b, failed) == [b EXCEPT !.balanceErr = failed]

\* C16: a builder whose balance probe failed is at the batch call, which it
\* can make; what the call leaves in the builder, for every outcome of the
\* chain queries and signings, is what it leaves when the probe succeeded;
\* and in Broadcasting and Complete every wallet's batch is accounted for:
\* each of its transactions is aggregated or was logged as not built.
C16_ProbeFailureGatesNothing ==
    /\ \A w \in WalletIds :
           /\ builder[w].balanceErr => builder[w].pc = "batch"
           /\ builder[w].pc = "batch" =>
                  /\ ENABLED SendEIP1559ETHTransferInBatch(w)
                  /\ \A why \in {"nonce", "gas", "tip", "header", "basefee"} :
                         ReturnEarly(WithProbe(builder[w], TRUE), why)
                             = ReturnEarly(WithProbe(builder[w], FALSE), why)
                  /\ \A nonce \in PendingNonces, gas \in GasEstimates, tip \in TipCaps,
                        baseFee \in BaseFees, signOk \in SUBSET (0 .. BatchSize(batch) - 1) :
                         ReturnBatch(WithProbe(builder[w], TRUE), w, BatchSize(batch),
                                     chainId, nonce, gas, tip, baseFee, signOk)
                             = ReturnBatch(WithProbe(builder[w], FALSE), w, BatchSize(batch),
                                           chainId, nonce, gas, tip, baseFee, signOk)
    /\ (Broadcasting \/ Complete) =>
           /\ \A w \in WalletIds : ~builder[w].balanceErr
           /\ Len(txs) + unbuilt = Len(Wallets) * BatchSize(batch)
           /\ \A k \in 1 .. Len(Wallets) : builder[Wallets[k]].pc = "done"

\* The first wallet has merged its two transactions; the probe of the second
\* failed, and its next step can be a batch call that returns both of its
\* transactions.
C16_Witness ==
    /\ Len(Wallets) = 2
    /\ batch = 2
    /\ ProbeFailed(2)
    /\ builder[1].pc = "done"
    /\ unbuilt = 0
    /\ Len(txs) = 2
    /\ txs[1].from = 1
    /\ ENABLED (/\ SendEIP1559ETHTransferInBatch(2)
                /\ builder'[2].fail = ""
                /\ Len(builder'[2].txs) = 2
                /\ ~builder'[2].balanceErr)

\* ----------------------------------------------------------------- C17
\* The goroutines that are between their t.Mu.Lock() and their t.Mu.Unlock().
InCritical ==
    {BuilderHolder(w) : w \in {x \in WalletIds : builder[x].pc \in {"append", "unlock"}}}
        \cup {SubmitHolder(i) : i \in {x \in TxSlots : sub[x].pc \in {"count", "unlock"}}}

\* At most one goroutine is between Lock and Unlock, and it is the holder of
\* the mutex; the holder can take its next step, up to its Unlock; no ended
\* goroutine holds the mutex and it is free when the run is over.
MutualExclusion ==
    /\ Cardinality(InCritical) <= 1
    /\ InCritical = (IF Mu = Free THEN {} ELSE {Mu})
    /\ \A w \in WalletIds :
           Mu = BuilderHolder(w) => ENABLED (BuilderAppend(w) \/ BuilderExit(w))
    /\ \A i \in TxSlots :
           Mu = SubmitHolder(i) => ENABLED (SubmitCount(i) \/ SubmitExit(i))
    /\ (pc \in {"broadcast", "sleep"} /\ Spawned = {}) => Mu = Free
    /\ (pc \in {"tally", "Complete", "Aborted"}) => Mu = Free

\* Every step that appends to the aggregated collection is taken by a builder
\* that holds the mutex before and after the step and appends its whole batch
\* at the end; every step that changes Success or Failed is taken by a
\* submission goroutine that holds the mutex before and after the step.
WritesUnderMutex ==
    /\ \A w \in WalletIds :
           (builder[w].pc = "append" /\ builder'[w].pc # "append") =>
               /\ Mu = BuilderHolder(w) /\ Mu' = Mu
               /\ txs' = txs \o builder[w].txs
    /\ txs' # txs =>
           \E w \in WalletIds : builder[w].pc = "append" /\ builder'[w].pc = "unlock"
    /\ (Success' # Success \/ Failed' # Failed) =>
           \E i \in TxSlots :
               /\ sub[i].pc = "count" /\ sub'[i].pc = "unlock"
               /\ Mu = SubmitHolder(i) /\ Mu' = Mu
               /\ Success' + Failed' = Success + Failed + 1

\* C17: in every reachable state at most one goroutine holds t.Mu, every
\* holder goes on to release it, and every write to txs, Success and Failed
\* is made by the goroutine holding t.Mu, a wallet's batch being appended in
\* one step at the end of the aggregated collection.
C17_SharedWritesUnderMutex == []MutualExclusion /\ [][WritesUnderMutex]_vars

\* The first wallet holds the mutex after appending its two transactions
\* while the second, its batch of two built, waits at Lock.
C17_Witness ==
    /\ Mu = BuilderHolder(1)
    /\ builder[1].pc = "unlock"
    /\ Len(builder[1].txs) = 2
    /\ txs = builder[1].txs
    /\ builder[2].pc = "lock"
    /\ Len(builder[2].txs) = 2

\* ----------------------------------------------------------------- C18
\* The derivation call has returned.
Derived == pc \notin {"start", "dial", "chainid", "derive", "Aborted"}

\* The result r of a derivation of count wallets is all or nothing: no error
\* and the wallets of indexes 0 .. count-1 in index order, or an error and no
\* wallet.
AllOrNothing(r, count) ==
    \/ /\ r.err = ""
       /\ count > 0
       /\ r.wallets = [k \in 1 .. count |-> k]
    \/ /\ r.err # ""
       /\ r.wallets = <<>>

\* C18: what DeriveEthereumWalletsFromMnemonic returned to Run is all or
\* nothing, and when Run is about to call it, so is what it returns for the
\* run's seed phrase and wallet count whatever the HD wallet library does: in
\* particular a failure at an index i > 0 returns none of the wallets of the
\* indexes below i.
C18_DeriveAllOrNothing ==
    /\ Derived => AllOrNothing([wallets |-> Wallets, err |-> deriveErr], WalletsNumber)
    /\ pc = "derive" =>
           \A hdOk \in BOOLEAN, failAt \in 0 .. MaxWallets :
               LET r == DeriveEthereumWalletsFromMnemonic(mnemonicValid, WalletsNumber,
                                                          hdOk, failAt)
               IN /\ AllOrNothing(r, WalletsNumber)
                  /\ (mnemonicValid /\ hdOk /\ failAt < WalletsNumber) =>
                         (r.wallets = <<>> /\ r.err = "failed to derive account")
                  /\ (mnemonicValid /\ hdOk /\ WalletsNumber > 0
                          /\ failAt >= WalletsNumber) =>
                         (Len(r.wallets) = WalletsNumber /\ r.err = "")

\* A derivation of two wallets failed at one of the indexes: Run got no wallet.
C18_Witness ==
    /\ pc = "build"
    /\ WalletsNumber = 2
    /\ mnemonicValid
    /\ deriveErr = "failed to derive account"
    /\ Wallets = <<>>

\* ----------------------------------------------------------------- C19
\* The batch call of wallet w returned early because its pending-nonce,
\* gas-estimate, tip or header query failed.
QueryFailed(w) ==
    Returned(w) /\ builder[w].fail \in {"nonce", "gas", "tip", "header"}

\* While the builder of a wallet whose query failed is alive, it holds no
\* transaction, the aggregated collection has none of that wallet, and the
\* barrier still waits for its wg.Done(); a wallet whose queries and signings
\* all succeeded has its full batch; and the WaitGroup counts exactly the
\* goroutines that have not signalled, so that in Broadcasting and Complete
\* every builder has signalled and every built transaction is aggregated.
QueryFailureContained ==
    /\ \A w \in WalletIds :
           QueryFailed(w) =>
               /\ builder[w].txs = <<>>
               /\ \A k \in 1 .. Len(txs) : txs[k].from # w
               /\ pc = "build"
               /\ wg >= 1
               /\ unbuilt >= BatchSize(batch)
    /\ \A w \in WalletIds :
           (Returned(w) /\ builder[w].fail = "" /\ builder[w].signErrs = {}) =>
               Len(builder[w].txs) = BatchSize(batch)
    /\ pc = "build" =>
           wg = Cardinality({w \in WalletIds : builder[w].pc \notin {"none", "done"}})
    /\ (Broadcasting \/ Complete) =>
           /\ AllBuildersFinished
           /\ Len(txs) + unbuilt = Len(Wallets) * BatchSize(batch)

\* C19: a failed query of one wallet stays contained, and every fair run in
\* which a wallet's query failed goes on to the broadcast loop and reaches
\* Complete.
C19_QueryFailureContained ==
    /\ []QueryFailureContained
    /\ (\E w \in WalletIds : QueryFailed(w)) ~> Broadcasting
    /\ (\E w \in WalletIds : QueryFailed(w)) ~> Complete

\* The tip query of the first wallet failed: it is about to end without a
\* transaction, while the second wallet has merged its full batch of two.
C19_Witness ==
    /\ Len(Wallets) = 2
    /\ batch = 2
    /\ QueryFailed(1)
    /\ builder[1].fail = "tip"
    /\ builder[1].pc = "unlock"
    /\ builder[2].pc = "done"
    /\ wg = 1
    /\ unbuilt = 2
    /\ Len(txs) = 2
    /\ txs[1].from = 2
    /\ txs[2].from = 2

\* ----------------------------------------------------------------- C20
\* The dial has succeeded.
Dialed == pc \notin {"start", "dial", "Aborted"}

\* The builders (before the barrier) or the submission goroutines (after it)
\* that were started and have not yet signalled wg.Done().
Unsignalled ==
    IF pc = "build"
    THEN Cardinality({w \in WalletIds : builder[w].pc \notin {"none", "done"}})
    ELSE IF Broadcasting
    THEN Len(txs) - Cardinality({i \in TxSlots : sub[i].pc = "done"})
    ELSE 0

\* The WaitGroup counter is never negative: it is the number of goroutines it
\* still waits for; and outside a critical section the mutex is free.
ResourcesSound ==
    /\ wg >= 0
    /\ wg = Unsignalled
    /\ InCritical = {} => Mu = Free
    /\ Complete => (wg = 0 /\ Mu = Free)

\* C20: after a successful dial every fair run reaches Complete, whatever
\* the wallet count, the batch size and the failures of the calls; on the
\* way the WaitGroup counter is never negative and Complete leaves the mutex
\* free.
C20_RunCompletes == []ResourcesSound /\ (Dialed ~> Complete)

\* A run with two wallets in which one signing and one submission failed
\* has reached Complete.
C20_Witness ==
    /\ Complete
    /\ Len(Wallets) = 2
    /\ batch = 2
    /\ unbuilt = 1
    /\ Len(txs) = 3
    /\ sendErrs = 1
    /\ wg = 0
    /\ Mu = Free
    /\ tally = [success |-> 2, failed |-> 1]

====
